---- MODULE Spec2Model ----
(***************************************************************************)
(* Model of patchback/event_handlers.py: the two webhook handlers          *)
(* (on_merge_of_labeled_pr, on_label_added_to_merged_pr), the orchestrator *)
(* process_pr_backport_labels with its check-run protocol, and the git     *)
(* executor backport_pr_sync working on a clone of a shared remote.        *)
(*                                                                         *)
(* Strings the code slices or concatenates are sequences of one-character  *)
(* strings; strings the code only compares or passes on are TLA+ strings.  *)
(***************************************************************************)
EXTENDS Integers, Sequences, FiniteSets, TLC

\* ------------------------------------------------------------------ bounds
\* Longest label list on the pull request of the 'closed' event.
MaxLabels == 2
\* Number of pushes other users make to the remote's default branch.
MaxRemoteUpdates == 1

\* ----------------------------------------------------------------- strings
BACKPORT_LABEL_PREFIX == <<"b", "a", "c", "k", "p", "o", "r", "t", "-">>
BACKPORT_LABEL_LEN == Len(BACKPORT_LABEL_PREFIX)

\* str.startswith
StartsWith(s, prefix) ==
    /\ Len(s) >= Len(prefix)
    /\ SubSeq(s, 1, Len(prefix)) = prefix

\* A slice that starts one character early.
StripLabelPrefixShort(label) == SubSeq(label, BACKPORT_LABEL_LEN, Len(label))

\* label[BACKPORT_LABEL_LEN:]
StripLabelPrefix(label) == SubSeq(label, BACKPORT_LABEL_LEN + 1, Len(label))

\* A slice that takes the whole string.
TakeAll(s, n) == s

\* s[:n]
Take(s, n) == SubSeq(s, 1, IF Len(s) < n THEN Len(s) ELSE n)

DigitChar(d) == <<"0", "1", "2", "3", "4", "5", "6", "7", "8", "9">>[d + 1]

RECURSIVE Decimal(_)
\* f'{n}' for a non-negative integer
Decimal(n) == IF n < 10 THEN <<DigitChar(n)>>
              ELSE Decimal(n \div 10) \o <<DigitChar(n % 10)>>

\* The branch names and labels of the repository under test.
BranchV1 == <<"v", "1">>
BranchV2 == <<"v", "2">>
DefaultBranch == <<"m", "a", "i", "n">>
LabelV1 == BACKPORT_LABEL_PREFIX \o BranchV1
LabelV2 == BACKPORT_LABEL_PREFIX \o BranchV2
LabelBug == <<"b", "u", "g">>
\* The labels a pull request can carry, in the order the payload lists them.
RepoLabels == <<LabelV1, LabelBug, LabelV2>>

\* A name that leaves the commit out.
BackportBranchNameWithoutSha(target_branch, merge_commit_sha, pr_number) ==
    <<"p", "a", "t", "c", "h", "b", "a", "c", "k", "/",
      "b", "a", "c", "k", "p", "o", "r", "t", "s", "/">>
    \o target_branch \o <<"/", "p", "r">> \o Decimal(pr_number)

\* f'patchback/backports/{target_branch}/{merge_commit_sha}/pr{pr_number}'
BackportBranchName(target_branch, merge_commit_sha, pr_number) ==
    <<"p", "a", "t", "c", "h", "b", "a", "c", "k", "/",
      "b", "a", "c", "k", "p", "o", "r", "t", "s", "/">>
    \o target_branch \o <<"/">> \o merge_commit_sha
    \o <<"/", "p", "r">> \o Decimal(pr_number)

\* -------------------------------------------------------- exception classes
\* Base class of each exception class the handlers can meet (Python builtins,
\* gidgethub, pygit2); "Exception" is the root.
PyBase(cls) ==
    CASE cls = "KeyError" -> "LookupError"
      [] cls = "IndexError" -> "LookupError"
      [] cls = "PermissionError" -> "OSError"
      [] cls = "FileExistsError" -> "OSError"
      [] cls = "ValidationError" -> "BadRequest"
      [] cls = "BadRequest" -> "HTTPException"
      [] cls = "GitHubBroken" -> "HTTPException"
      [] OTHER -> "Exception"

\* An `except` clause that matched the named class only, not its subclasses.
IsInstanceExact(cls, handler) == cls = handler

RECURSIVE IsInstance(_, _)
\* What an `except handler:` clause matches: the class or any subclass.
IsInstance(cls, handler) ==
    \/ cls = handler
    \/ cls # "Exception" /\ IsInstance(PyBase(cls), handler)

\* ---------------------------------------------------------------- git data
\* A tree is the content of the repository's two files.
Conflict == 0 - 1
Tree(f, g) == <<f, g>>

\* One entry of a three-way merge (libgit2's default policy).
MergeEntry(base, ours, theirs) ==
    IF ours = theirs THEN ours
    ELSE IF ours = base THEN theirs
    ELSE IF theirs = base THEN ours
    ELSE Conflict

\* repo.merge_trees(ancestor, ours, theirs): the merged index, entry by entry.
merge_trees(base_tree, ours_tree, theirs_tree) ==
    [i \in 1..2 |-> MergeEntry(base_tree[i], ours_tree[i], theirs_tree[i])]

HasConflicts(index) == \E i \in DOMAIN index : index[i] = Conflict

Commit(parents, tree, author, committer, message) ==
    [parents |-> parents, tree |-> tree, author |-> author,
     committer |-> committer, message |-> message]

\* The repository at the time of the events. Commit ids index this sequence.
\*   1 root; 2 tip of v1; 3 main before the merge; 4 head of the pull request;
\*   5 the merge commit of the pull request (the cherry); 6 tip of v2.
Id == [root |-> 1, v1 |-> 2, first_parent |-> 3, pr_head |-> 4, merge |-> 5,
       v2 |-> 6]
InitialCommits ==
    << Commit(<<>>, Tree(0, 0), "alice", "alice", "initial"),
       Commit(<<Id.root>>, Tree(0, 0), "alice", "alice", "release v1"),
       Commit(<<Id.root>>, Tree(1, 0), "alice", "alice", "work on main"),
       Commit(<<Id.first_parent>>, Tree(1, 2), "bob", "bob", "fix"),
       Commit(<<Id.first_parent, Id.pr_head>>, Tree(1, 2), "bob", "GitHub",
              "Merge pull request"),
       Commit(<<Id.root>>, Tree(0, 1), "alice", "alice", "release v2") >>

\* The hexadecimal name of a commit (abbreviated to ten characters).
ShaOf(id) == <<"c", "0", "f", "f", "e", "e", "0", "0">>
             \o <<DigitChar(id \div 10), DigitChar(id % 10)>>
UnknownSha == <<"d", "e", "a", "d", "b", "e", "e", "f", "0", "0">>

\* An object store is a function from commit ids to commits.
Put(store, id, commit) ==
    [i \in DOMAIN store \cup {id} |-> IF i = id THEN commit ELSE store[i]]

RECURSIVE IsAncestor(_, _, _)
\* Whether commit a is b or an ancestor of b, by the commits a store holds.
IsAncestor(store, a, b) ==
    \/ a = b
    \/ /\ b \in DOMAIN store
       /\ \E p \in {store[b].parents[i] : i \in DOMAIN store[b].parents} :
              IsAncestor(store, a, p)

EmptyRefs == [n \in {} |-> 0]
SetRef(refs, name, id) ==
    [n \in DOMAIN refs \cup {name} |-> IF n = name THEN id ELSE refs[n]]

\* ------------------------------------------------------------------- state
\* The pull request of the events.
PrNumbers == {42}

Events == {"closed", "labeled"}
Requests == {<<"closed", i>> : i \in 1..MaxLabels} \cup {<<"labeled", 1>>}

VARIABLES
    commits,         \* the git object store: commit id -> commit
    remote_refs,     \* refs/heads of the remote: branch name -> commit id
    remote_updates,  \* pushes made to the remote by other users so far
    payload,         \* the pull_request fields every event of it carries
    inbox,           \* per event: the fields of its payload, until handled
                     \* (the labels of the pull request; the label added)
    ev,              \* per event: position of its handler
    req,             \* per request: locals of process_pr_backport_labels
    fs,              \* the temporary directories that exist
    naming           \* branch names computed apart from any event (below)

vars == <<commits, remote_refs, remote_updates, payload, inbox, ev, req, fs,
          naming>>

\* A clone: its refs, and the commits of its object database.
NoClone == [HEAD |-> <<>>, tracking |-> EmptyRefs, local |-> EmptyRefs,
            push_specs |-> {}, objects |-> EmptyRefs]

\* The position of a request among all requests.
Ordinal(r) == IF r[1] = "closed" THEN r[2] ELSE MaxLabels + 1

\* The id of the commit request r creates (ids stand for hashes: distinct
\* from every commit of the remote and of the other requests).
NewCommitId(r) == Len(InitialCommits) + MaxRemoteUpdates + Ordinal(r)

\* No pull-request creation request sent.
NoPull == [sent |-> FALSE]

IdleRequest ==
    [pc |-> "idle", target_branch |-> <<>>, use_checks_api |-> FALSE,
     writes |-> <<>>, token |-> "", tmp_dir |-> 0, clone |-> NoClone,
     exc |-> "", exc_msg |-> "", cause |-> "", backport_pr_branch |-> <<>>,
     created |-> 0, pushed |-> 0, replaced |-> 0, pull |-> NoPull,
     raised_by |-> ""]

\* The frame of a call that has ended, once its caller has resumed.
Ended(q) == [IdleRequest EXCEPT !.pc = IF q.pc = "done" THEN "returned"
                                       ELSE "propagated"]

\* No branch name asked for.
NoNaming == [inputs |-> <<>>, names |-> <<>>]

RECURSIVE SubSeqsOf(_)
\* The subsequences of a sequence (labels keep the payload's order).
SubSeqsOf(s) ==
    IF s = <<>> THEN {<<>>}
    ELSE LET rest == SubSeqsOf(Tail(s))
         IN rest \cup {<<Head(s)>> \o t : t \in rest}

\* The labels of a pull request once a label has been added to it.
WithLabel(labels, label) ==
    IF \E i \in DOMAIN labels : labels[i] = label THEN labels
    ELSE Append(labels, label)

LabelLists == {l \in SubSeqsOf(RepoLabels) : Len(l) <= MaxLabels}

Init ==
    /\ commits = [i \in DOMAIN InitialCommits |-> InitialCommits[i]]
    /\ \E v2 \in BOOLEAN :
         remote_refs =
             [n \in {DefaultBranch, BranchV1} \cup (IF v2 THEN {BranchV2} ELSE {})
                |-> IF n = DefaultBranch THEN Id.merge
                    ELSE IF n = BranchV1 THEN Id.v1 ELSE Id.v2]
    /\ remote_updates = 0
    /\ \E number \in PrNumbers, merged \in BOOLEAN, labels \in LabelLists,
          label \in {LabelV1, LabelBug},
          sha \in {ShaOf(Id.merge), ShaOf(Id.root), UnknownSha} :
         /\ payload = [number |-> number, merged |-> merged,
                       merge_commit_sha |-> sha]
         /\ inbox = [e \in Events |->
                       IF e = "closed" THEN [labels |-> labels]
                       ELSE [label |-> label, labels |-> WithLabel(labels, label)]]
    /\ ev = [e \in Events |-> [pc |-> "pending", target_branches |-> <<>>,
                               idx |-> 0]]
    /\ req = [r \in Requests |-> IdleRequest]
    /\ fs = {}
    /\ naming = NoNaming

\* ------------------------------------------------------------ hosting API
\* What a call of the hosting API client returns or raises: cls is "" for a
\* response, else the class of the exception raised.
ApiOk == [cls |-> "", status_code |-> 200, msg |-> ""]
ApiError(cls, status_code, msg) ==
    [cls |-> cls, status_code |-> status_code, msg |-> msg]
NotAccessible == "Resource not accessible by integration"
Forbidden == ApiError("BadRequest", 403, NotAccessible)
ServerError == ApiError("GitHubBroken", 500, "Internal Server Error")

CheckCreateResponses ==
    {ApiOk, Forbidden, ApiError("BadRequest", 403, "Must have admin rights"),
     ServerError}
CheckUpdateResponses == {ApiOk, ServerError}
PullCreateResponses ==
    {ApiOk, ApiError("ValidationError", 422, "Validation Failed"), Forbidden,
     ApiError("BadRequest", 404, "Not Found"), ServerError}

\* A check-run request as sent: the fields of its data the protocol rests on.
CheckRunName(target_branch) == <<"Backport to ", target_branch>>
CheckWrite(method, name, status, conclusion, title, resp) ==
    [method |-> method, name |-> name, status |-> status,
     conclusion |-> conclusion, title |-> title, resp |-> resp,
     ok |-> resp.cls = ""]

\* ---------------------------------------------------------- event handlers
\* A call has returned or raised and its caller has not resumed yet. The event
\* loop runs one coroutine at a time and switches at an await only, so from a
\* call's return or raise to the caller's next await no other step is taken.
Returning == \E r \in Requests : req[r].pc \in {"done", "raised"}

\* The payload of an event whose handler has read it.
Handled == [handled |-> TRUE]

\* A filter that lets every label through.
IsAnyLabel(label) == TRUE

\* label.startswith(BACKPORT_LABEL_PREFIX)
IsBackportLabel(label) == StartsWith(label, BACKPORT_LABEL_PREFIX)

\* [label[BACKPORT_LABEL_LEN:] for label in labels if label.startswith(...)]
TargetBranches(labels) ==
    LET kept == SelectSeq(labels, IsBackportLabel)
    IN [i \in DOMAIN kept |-> StripLabelPrefix(kept[i])]

\* ensure_pr_merged, then the body of on_merge_of_labeled_pr up to its loop.
OnMergeOfLabeledPr ==
    /\ ~Returning
    /\ ev["closed"].pc = "pending"
    /\ LET target_branches == TargetBranches(inbox["closed"].labels)
       IN ev' = [ev EXCEPT !["closed"] =
                   IF ~payload.merged \/ target_branches = <<>>
                   THEN [@ EXCEPT !.pc = "dropped"]
                   ELSE [@ EXCEPT !.pc = "calling",
                                  !.target_branches = target_branches]]
    /\ inbox' = [inbox EXCEPT !["closed"] = Handled]
    /\ UNCHANGED <<commits, remote_refs, remote_updates, payload, req, fs,
                   naming>>

\* A handler that backports to every backport label the pull request carries.
LabeledTargetsOfAllLabels(label, labels) == TargetBranches(labels)

\* The target branches of a 'labeled' event: the one of the label added; the
\* labels in its pull_request object are not read.
LabeledTargets(label, labels) == <<StripLabelPrefix(label)>>

\* ensure_pr_merged, then on_label_added_to_merged_pr up to its call.
OnLabelAddedToMergedPr ==
    /\ ~Returning
    /\ ev["labeled"].pc = "pending"
    /\ ev' = [ev EXCEPT !["labeled"] =
                IF ~payload.merged \/ ~IsBackportLabel(inbox["labeled"].label)
                THEN [@ EXCEPT !.pc = "dropped"]
                ELSE [@ EXCEPT !.pc = "calling",
                               !.target_branches =
                                   LabeledTargets(inbox["labeled"].label,
                                                  inbox["labeled"].labels)]]
    /\ inbox' = [inbox EXCEPT !["labeled"] = Handled]
    /\ UNCHANGED <<commits, remote_refs, remote_updates, payload, req, fs,
                   naming>>

\* A loop that starts its calls without awaiting them.
MayCallNextAtOnce(e) == TRUE

\* `await` in the loop: the next call is made once the last one has returned.
MayCallNext(e) ==
    IF ev[e].idx = 0 THEN TRUE ELSE req[<<e, ev[e].idx>>].pc = "done"

\* The handler calls process_pr_backport_labels for its next target branch:
\* the first one, or the one after a call that returned.
CallProcess(e) ==
    /\ ev[e].pc = "calling"
    /\ ev[e].idx < Len(ev[e].target_branches)
    /\ MayCallNext(e)
    /\ ev' = [ev EXCEPT ![e].idx = @ + 1]
    /\ req' = [r \in Requests |->
                 IF r = <<e, ev[e].idx + 1>>
                 THEN [req[r] EXCEPT
                         !.pc = "create_check",
                         !.target_branch = ev[e].target_branches[ev[e].idx + 1]]
                 ELSE IF r = <<e, ev[e].idx>> THEN Ended(req[r])
                 ELSE req[r]]
    /\ UNCHANGED <<commits, remote_refs, remote_updates, payload, inbox, fs,
                   naming>>

\* The last call returned: the handler returns.
HandlerReturn(e) ==
    /\ ev[e].pc = "calling"
    /\ ev[e].idx = Len(ev[e].target_branches)
    /\ req[<<e, ev[e].idx>>].pc = "done"
    /\ ev' = [ev EXCEPT ![e].pc = "done"]
    /\ req' = [req EXCEPT ![<<e, ev[e].idx>>] = Ended(@)]
    /\ UNCHANGED <<commits, remote_refs, remote_updates, payload, inbox, fs,
                   naming>>

\* A call raised: nothing in the handler catches it, so the handler raises.
HandlerRaise(e) ==
    /\ ev[e].pc = "calling"
    /\ ev[e].idx > 0
    /\ req[<<e, ev[e].idx>>].pc = "raised"
    /\ ev' = [ev EXCEPT ![e].pc = "raised"]
    /\ req' = [req EXCEPT ![<<e, ev[e].idx>>] = Ended(@)]
    /\ UNCHANGED <<commits, remote_refs, remote_updates, payload, inbox, fs,
                   naming>>

\* ------------------------------------------------------------ orchestrator
\* An `except BadRequest` clause that re-raises whatever it caught.
IsPermissionDeniedNever(err) == FALSE

\* The same test without the comparison of the message.
IsPermissionDeniedByStatus(err) == ~(err.status_code # 403)

\* The test both `except BadRequest` clauses make before they re-raise.
IsPermissionDenied(err) ==
    ~(err.status_code # 403 \/ err.msg # NotAccessible)

\* A check-run update: the request is sent, and its error, if any, is raised.
AfterPatch(q, write, next_pc) ==
    [q EXCEPT !.writes = Append(@, write),
              !.pc = IF write.ok THEN next_pc ELSE "raised",
              !.raised_by = IF write.ok THEN @ ELSE "patch"]

\* gh_api.post(check_runs_base_uri, status 'queued') and its except/else.
CreateCheckRun(r) ==
    /\ ~Returning
    /\ req[r].pc = "create_check"
    /\ \E resp \in CheckCreateResponses :
         LET q == req[r]
             write == CheckWrite("POST", CheckRunName(q.target_branch),
                                 "queued", "", "", resp)
             sent == [q EXCEPT !.writes = Append(@, write)]
         IN req' = [req EXCEPT ![r] =
              IF resp.cls = ""
              THEN [sent EXCEPT !.use_checks_api = TRUE, !.pc = "in_progress"]
              ELSE IF IsInstance(resp.cls, "BadRequest") /\ IsPermissionDenied(resp)
              THEN [sent EXCEPT !.pc = "get_token"]
              ELSE [sent EXCEPT !.pc = "raised", !.raised_by = "create_check"]]
    /\ UNCHANGED <<commits, remote_refs, remote_updates, payload, inbox, ev, fs,
                   naming>>

\* if use_checks_api: gh_api.patch(status 'in_progress')
PatchInProgress(r) ==
    /\ ~Returning
    /\ req[r].pc = "in_progress"
    /\ req[r].use_checks_api
    /\ \E resp \in CheckUpdateResponses :
         req' = [req EXCEPT ![r] =
                   AfterPatch(@, CheckWrite("PATCH", CheckRunName(@.target_branch),
                                            "in_progress", "", "", resp),
                              "get_token")]
    /\ UNCHANGED <<commits, remote_refs, remote_updates, payload, inbox, ev, fs,
                   naming>>

\* (await RUNTIME_CONTEXT.app_installation.get_token()).token, evaluated
\* before the executor is handed to the thread pool.
GetToken(r) ==
    /\ ~Returning
    /\ req[r].pc = "get_token"
    /\ req' = [req EXCEPT ![r].token = "installation-token", ![r].pc = "tmpdir"]
    /\ UNCHANGED <<commits, remote_refs, remote_updates, payload, inbox, ev, fs,
                   naming>>

\* ---------------------------------------------------------------- executor
\* Leaving the `with tempfile.TemporaryDirectory` block by an exception: the
\* directory and the clone in it are removed, the exception reaches the caller.
ExecRaise(q, cls, msg, cause) ==
    [q EXCEPT !.exc = cls, !.exc_msg = msg, !.cause = cause,
              !.pc = "exec_result", !.tmp_dir = 0, !.clone = NoClone]

\* A `with` block that leaves its directory behind.
KeepDir(dirs, d) == dirs

\* TemporaryDirectory.__exit__: the directory is removed, however the block
\* was left.
RemoveDir(dirs, d) == dirs \ {d}

\* A name picked without looking at the directories that exist.
FirstDir == CHOOSE n \in 1..(Cardinality(fs) + 1) :
                \A m \in 1..(Cardinality(fs) + 1) : n <= m

\* The name mkdtemp picks: one that names no existing directory.
FreshDir == CHOOSE n \in 1..(Cardinality(fs) + 1) :
                n \notin fs /\ \A m \in 1..(n - 1) : m \in fs

\* tempfile.TemporaryDirectory(...).__enter__
ExecTmpDir(r) ==
    /\ ~Returning
    /\ req[r].pc = "tmpdir"
    /\ \E outcome \in {"ok", "PermissionError", "OSError"} :
         IF outcome = "ok"
         THEN /\ req' = [req EXCEPT ![r].tmp_dir = FreshDir, ![r].pc = "clone"]
              /\ fs' = fs \cup {FreshDir}
         ELSE /\ req' = [req EXCEPT ![r] =
                           ExecRaise(@, outcome, "mkdtemp failed", "tmpdir")]
              /\ fs' = fs
    /\ UNCHANGED <<commits, remote_refs, remote_updates, payload, inbox, ev,
                   naming>>

\* clone_repository(url, path, bare=True) and its `except KeyError`.
ExecClone(r) ==
    /\ ~Returning
    /\ req[r].pc = "clone"
    /\ \E outcome \in {"ok", "KeyError", "GitError"} :
         /\ req' = [req EXCEPT ![r] =
              IF outcome = "ok"
              THEN [@ EXCEPT !.pc = "fetch",
                             !.clone = [HEAD |-> DefaultBranch,
                                        tracking |-> remote_refs,
                                        local |-> SetRef(EmptyRefs, DefaultBranch,
                                                         remote_refs[DefaultBranch]),
                                        push_specs |-> {},
                                        objects |-> commits]]
              ELSE IF IsInstance(outcome, "KeyError")
              THEN ExecRaise(@, "LookupError", "Failed to check out branch", "clone")
              ELSE ExecRaise(@, outcome, "clone failed", "clone")]
         /\ fs' = IF outcome = "ok" THEN fs ELSE RemoveDir(fs, req[r].tmp_dir)
    /\ UNCHANGED <<commits, remote_refs, remote_updates, payload, inbox, ev,
                   naming>>

\* add_fetch twice, github_upstream_remote.fetch, add_push.
ExecFetch(r) ==
    /\ ~Returning
    /\ req[r].pc = "fetch"
    /\ \E outcome \in {"ok", "GitError"} :
         /\ req' = [req EXCEPT ![r] =
              IF outcome = "ok"
              THEN [@ EXCEPT !.pc = "cherry_pick",
                             !.clone.tracking = remote_refs,
                             !.clone.objects = commits,
                             !.clone.push_specs =
                                 {<<req[r].target_branch,
                                    BackportBranchName(req[r].target_branch,
                                        payload.merge_commit_sha, payload.number)>>}]
              ELSE ExecRaise(@, outcome, "fetch failed", "fetch")]
         /\ fs' = IF outcome = "ok" THEN fs ELSE RemoveDir(fs, req[r].tmp_dir)
    /\ UNCHANGED <<commits, remote_refs, remote_updates, payload, inbox, ev,
                   naming>>

\* repo.revparse_single(sha): the commits the sha names.
revparse_single(store, sha) == {id \in DOMAIN store : ShaOf(id) = sha}

Committer == "Patchback <patchback@sanitizers.bot>"

\* From revparse_single to create_commit: the cherry-pick in the clone.
ExecCherryPick(r) ==
    /\ ~Returning
    /\ req[r].pc = "cherry_pick"
    /\ LET q == req[r]
           repo == q.clone
           backport_pr_branch ==
               BackportBranchName(q.target_branch, payload.merge_commit_sha,
                                  payload.number)
           found == revparse_single(repo.objects, payload.merge_commit_sha)
           cherry == repo.objects[CHOOSE id \in found : TRUE]
           target == repo.tracking[q.target_branch]
           base_tree == repo.objects[cherry.parents[1]].tree
           index == merge_trees(base_tree, repo.objects[target].tree, cherry.tree)
           fail(cls, msg, cause) ==
               /\ req' = [req EXCEPT ![r] = ExecRaise(q, cls, msg, cause)]
               /\ fs' = RemoveDir(fs, q.tmp_dir)
       IN IF found = {}
          THEN fail("KeyError", "revspec not found", "sha_unresolved")
          ELSE IF q.target_branch \notin DOMAIN repo.tracking
          THEN fail("KeyError", "Branch not found", "branch_missing")
          ELSE IF cherry.parents = <<>>
          THEN fail("IndexError", "list index out of range", "no_parent")
          ELSE IF HasConflicts(index)
          THEN fail("GitError", "cannot create a tree from a not fully merged index",
                    "merge_conflict")
          ELSE /\ req' = [req EXCEPT
                   ![r].pc = "push", ![r].created = NewCommitId(r),
                   ![r].clone.objects =
                       Put(repo.objects, NewCommitId(r),
                           Commit(<<target>>, index, cherry.author, Committer,
                                  cherry.message)),
                   ![r].clone.local =
                       SetRef(repo.local, backport_pr_branch, NewCommitId(r))]
               /\ fs' = fs
    /\ UNCHANGED <<commits, remote_refs, remote_updates, payload, inbox, ev,
                   naming>>

\* The same refspec with a leading '+': a forced update.
ForcedPushRefspec(backport_pr_branch) ==
    [force |-> TRUE, src |-> <<"HEAD">>, dst |-> backport_pr_branch]

\* The refspec handed to push: f'HEAD:refs/heads/{backport_pr_branch}'.
PushRefspec(backport_pr_branch) ==
    [force |-> FALSE, src |-> <<"HEAD">>, dst |-> backport_pr_branch]

\* The commit a refspec's source names in a clone.
ResolveSrc(clone, src) ==
    IF src = <<"HEAD">> THEN clone.local[clone.HEAD] ELSE clone.local[src]

PushForbidden == "unexpected http status code: 403"
PushRejected == "cannot push non-fastforwardable reference"

\* The test of the next definition with another status code in its string.
IsPushForbiddenWrongCode(msg) == ~(msg # "unexpected http status code: 401")

\* The `except GitError` test that tells a push denied for its scope.
IsPushForbidden(msg) == ~(msg # PushForbidden)

PushTransportOutcomes == {"ok", PushForbidden, "unexpected http status code: 500"}

\* github_upstream_remote.push([refspec]) with its except/else, then the
\* end of the `with` block and the return.
ExecPush(r) ==
    /\ ~Returning
    /\ req[r].pc = "push"
    /\ \E outcome \in PushTransportOutcomes :
         LET q == req[r]
             backport_pr_branch ==
                 BackportBranchName(q.target_branch, payload.merge_commit_sha,
                                    payload.number)
             spec == PushRefspec(backport_pr_branch)
             new == ResolveSrc(q.clone, spec.src)
             fast_forward ==
                 \/ spec.dst \notin DOMAIN remote_refs
                 \/ IsAncestor(q.clone.objects, remote_refs[spec.dst], new)
             error ==
                 IF outcome # "ok" THEN outcome
                 ELSE IF ~spec.force /\ ~fast_forward
                 THEN PushRejected
                 ELSE ""
         IN IF error # ""
            THEN /\ req' = [req EXCEPT ![r] =
                      IF IsPushForbidden(error)
                      THEN ExecRaise(q, "PermissionError",
                                     "insufficient privileges for pushing", error)
                      ELSE ExecRaise(q, "GitError", error, error)]
                 /\ UNCHANGED <<commits, remote_refs>>
            ELSE /\ req' = [req EXCEPT ![r] =
                      [q EXCEPT !.pc = "exec_result", !.pushed = new,
                                !.replaced =
                                    IF spec.dst \in DOMAIN remote_refs
                                    THEN remote_refs[spec.dst] ELSE 0,
                                !.backport_pr_branch = backport_pr_branch,
                                !.tmp_dir = 0, !.clone = NoClone]]
                 /\ remote_refs' = SetRef(remote_refs, spec.dst, new)
                 /\ commits' = Put(commits, new, q.clone.objects[new])
    /\ fs' = RemoveDir(fs, req[r].tmp_dir)
    /\ UNCHANGED <<remote_updates, payload, inbox, ev, naming>>

\* Another user pushes a new commit onto the tip of the default branch.
RemotePush ==
    /\ ~Returning
    /\ remote_updates < MaxRemoteUpdates
    /\ LET tip == remote_refs[DefaultBranch]
           id == Len(InitialCommits) + remote_updates + 1
       IN /\ commits' = Put(commits, id,
                            Commit(<<tip>>, Tree(3, 2), "carol", "carol",
                                   "more work"))
          /\ remote_refs' = SetRef(remote_refs, DefaultBranch, id)
    /\ remote_updates' = remote_updates + 1
    /\ UNCHANGED <<payload, inbox, ev, req, fs, naming>>

\* ------------------------------------------------- orchestrator, continued
CompletedWrite(q, conclusion, title, resp) ==
    CheckWrite("PATCH", CheckRunName(q.target_branch), "completed", conclusion,
               title, resp)

\* The titles of the terminal updates, after f'{check_run_name}: ' (the
\* source writes the dash as U+2014).
TitleBranchMissing == "cherry-picking failed - target branch does not exist"
TitleCouldNotPush == "cherry-picking failed - could not push"
TitlePullFailed == "creation of the backport PR failed"
TitleProgress == "cherry-pick succeeded"
TitleSuccess == "backport PR created"

\* A handler without its `return`: control falls through to the next
\* statement of the function.
PcFallThrough == "progress"

\* Where the `return` that follows a handler's terminal update leaves the call.
PcAfterReturn == "done"

\* Failure handlers that report the conclusion of a successful run.
ConclusionSuccess == "success"

\* The conclusion the handlers of classified failures report.
ConclusionOfFailure == "neutral"

\* The except clauses around the executor call, and its else.
HandleExecutorResult(r) ==
    /\ ~Returning
    /\ req[r].pc = "exec_result"
    /\ LET q == req[r]
           title ==
               IF IsInstance(q.exc, "LookupError") THEN TitleBranchMissing
               ELSE TitleCouldNotPush
       IN IF q.exc = ""
          THEN req' = [req EXCEPT ![r].pc =
                         IF q.use_checks_api THEN "progress" ELSE "create_pr"]
          ELSE IF IsInstance(q.exc, "LookupError")
                  \/ IsInstance(q.exc, "PermissionError")
          THEN IF ~q.use_checks_api
               THEN req' = [req EXCEPT ![r].pc = "done"]
               ELSE \E resp \in CheckUpdateResponses :
                      req' = [req EXCEPT ![r] =
                                AfterPatch(q, CompletedWrite(q, ConclusionOfFailure,
                                                             title, resp),
                                           PcAfterReturn)]
          ELSE req' = [req EXCEPT ![r].pc = "raised", ![r].raised_by = "executor"]
    /\ UNCHANGED <<commits, remote_refs, remote_updates, payload, inbox, ev, fs,
                   naming>>

\* if use_checks_api: gh_api.patch(status 'in_progress', 'cherry-pick succeeded')
PatchProgress(r) ==
    /\ ~Returning
    /\ req[r].pc = "progress"
    /\ \E resp \in CheckUpdateResponses :
         req' = [req EXCEPT ![r] =
                   AfterPatch(@, CheckWrite("PATCH", CheckRunName(@.target_branch),
                                            "in_progress", "", TitleProgress,
                                            resp),
                              "create_pr")]
    /\ UNCHANGED <<commits, remote_refs, remote_updates, payload, inbox, ev, fs,
                   naming>>

\* pull_request['title'] of the events.
PrTitle == <<"Fix the frobnicator">>

\* f'[PR #{pr_number}/{pr_merge_commit[:8]} backport][{target_branch}] {pr_title}'
PullTitle(pr_number, pr_merge_commit, target_branch, pr_title) ==
    <<"[", "P", "R", " ", "#">> \o Decimal(pr_number) \o <<"/">>
    \o Take(pr_merge_commit, 8)
    \o <<" ", "b", "a", "c", "k", "p", "o", "r", "t", "]", "[">>
    \o target_branch \o <<"]", " ">> \o pr_title

\* gh_api.post(pr_api_url, data=...): the request is sent and answered.
CreatePullRequest(r) ==
    /\ ~Returning
    /\ req[r].pc = "create_pr"
    /\ \E resp \in PullCreateResponses :
         req' = [req EXCEPT ![r].pc = "pr_result",
                            ![r].pull = [sent |-> TRUE,
                                         title |-> PullTitle(payload.number,
                                                     payload.merge_commit_sha,
                                                     req[r].target_branch,
                                                     PrTitle),
                                         head |-> req[r].backport_pr_branch,
                                         base |-> req[r].target_branch,
                                         maintainer_can_modify |-> TRUE,
                                         draft |-> FALSE,
                                         resp |-> resp]]
    /\ UNCHANGED <<commits, remote_refs, remote_updates, payload, inbox, ev, fs,
                   naming>>

\* Handlers of the pull-request creation without the `except BadRequest`.
IsValidationErrorOnly(err) == IsInstance(err.cls, "ValidationError")

\* The errors of the pull-request creation its except clauses handle:
\* `except ValidationError`, then `except BadRequest` unless it re-raises.
IsClassifiedPullError(err) ==
    \/ IsInstance(err.cls, "ValidationError")
    \/ IsInstance(err.cls, "BadRequest") /\ IsPermissionDenied(err)

\* The except clauses around the pull-request creation, and its else.
HandlePullResult(r) ==
    /\ ~Returning
    /\ req[r].pc = "pr_result"
    /\ LET q == req[r]
           err == q.pull.resp
           classified == IsClassifiedPullError(err)
       IN IF err.cls = ""
          THEN req' = [req EXCEPT ![r].pc =
                         IF q.use_checks_api THEN "success" ELSE "done"]
          ELSE IF classified
          THEN IF ~q.use_checks_api
               THEN req' = [req EXCEPT ![r].pc = "done"]
               ELSE \E resp \in CheckUpdateResponses :
                      req' = [req EXCEPT ![r] =
                                AfterPatch(q, CompletedWrite(q, ConclusionOfFailure,
                                               TitlePullFailed,
                                               resp),
                                           PcAfterReturn)]
          ELSE req' = [req EXCEPT ![r].pc = "raised", ![r].raised_by = "create_pr"]
    /\ UNCHANGED <<commits, remote_refs, remote_updates, payload, inbox, ev, fs,
                   naming>>

\* if use_checks_api: gh_api.patch(status 'completed', conclusion 'success')
PatchSuccess(r) ==
    /\ ~Returning
    /\ req[r].pc = "success"
    /\ \E resp \in CheckUpdateResponses :
         req' = [req EXCEPT ![r] =
                   AfterPatch(@, CompletedWrite(@, "success", TitleSuccess,
                                                resp),
                              "done")]
    /\ UNCHANGED <<commits, remote_refs, remote_updates, payload, inbox, ev, fs,
                   naming>>

\* ------------------------------------------------------------ branch names
\* backport_pr_branch as a function of its three inputs, computed for pairs of
\* inputs apart from any event: target branches with and without '/', one of
\* them ending like a name's tail; hexadecimal commit names; pull-request
\* numbers of one and two digits.
NameTargets == {<<"v", "1">>, <<"v", "1", "/", "a">>, <<"a">>,
                <<"a", "/", "p", "r", "4">>}
NameShas == {<<"a">>, <<"a", "b">>, <<"b">>}
NamePrNumbers == {1, 4, 14, 42}
NameInputs ==
    [target_branch : NameTargets, merge_commit_sha : NameShas,
     pr_number : NamePrNumbers]

InitNames ==
    /\ \E a, b \in NameInputs : naming = [inputs |-> <<a, b>>, names |-> <<>>]
    /\ commits = [i \in DOMAIN InitialCommits |-> InitialCommits[i]]
    /\ remote_refs = SetRef(EmptyRefs, DefaultBranch, Id.merge)
    /\ remote_updates = 0
    /\ payload = [number |-> 42, merged |-> FALSE,
                  merge_commit_sha |-> ShaOf(Id.merge)]
    /\ inbox = [e \in Events |-> Handled]
    /\ ev = [e \in Events |-> [pc |-> "dropped", target_branches |-> <<>>,
                               idx |-> 0]]
    /\ req = [r \in Requests |-> IdleRequest]
    /\ fs = {}

\* The first lines of backport_pr_sync, for the next input.
NameBranch ==
    /\ Len(naming.names) < Len(naming.inputs)
    /\ LET in == naming.inputs[Len(naming.names) + 1]
       IN naming' = [naming EXCEPT !.names =
                        Append(@, BackportBranchName(in.target_branch,
                                                     in.merge_commit_sha,
                                                     in.pr_number))]
    /\ UNCHANGED <<commits, remote_refs, remote_updates, payload, inbox, ev,
                   req, fs>>

NextNames == NameBranch

SpecNames == InitNames /\ [][NextNames]_vars

\* ----------------------------------------------------------- specification
Next ==
    \/ OnMergeOfLabeledPr
    \/ OnLabelAddedToMergedPr
    \/ \E e \in Events : CallProcess(e)
    \/ \E e \in Events : HandlerReturn(e)
    \/ \E e \in Events : HandlerRaise(e)
    \/ \E r \in Requests : CreateCheckRun(r)
    \/ \E r \in Requests : PatchInProgress(r)
    \/ \E r \in Requests : GetToken(r)
    \/ \E r \in Requests : ExecTmpDir(r)
    \/ \E r \in Requests : ExecClone(r)
    \/ \E r \in Requests : ExecFetch(r)
    \/ \E r \in Requests : ExecCherryPick(r)
    \/ \E r \in Requests : ExecPush(r)
    \/ \E r \in Requests : HandleExecutorResult(r)
    \/ \E r \in Requests : PatchProgress(r)
    \/ \E r \in Requests : CreatePullRequest(r)
    \/ \E r \in Requests : HandlePullResult(r)
    \/ \E r \in Requests : PatchSuccess(r)
    \/ RemotePush

Spec == Init /\ [][Next]_vars

\* ------------------------------------------------------------- properties
\* A call of process_pr_backport_labels that has returned or raised.
HasEnded(q) == q.pc \in {"done", "raised"}

\* The positions of the writes of a request with a given status.
WritesWith(q, status) == {i \in DOMAIN q.writes : q.writes[i].status = status}

Statuses(q) == [i \in DOMAIN q.writes |-> q.writes[i].status]

\* The executor was called and has returned or raised.
ExecutorEnded(q) == q.exc # "" \/ q.backport_pr_branch # <<>>

\* C1: whenever a run in which the check run was created has ended, by a
\* return or by any exception, exactly one write with status 'completed' has
\* been issued for its check run.
C1_OneTerminalWriteOnEveryExit ==
    \A r \in Requests :
        HasEnded(req[r]) /\ req[r].use_checks_api
            => Cardinality(WritesWith(req[r], "completed")) = 1

\* C2: the check-run writes of one request come in the order: the creation
\* with 'queued', then 'in_progress' right after the creation succeeded, at
\* most one further 'in_progress' (after the push succeeded, before the
\* pull-request creation is requested), then at most one 'completed'; nothing
\* follows a 'completed' write or a failed write, and no update precedes a
\* successful creation.
C2_WritesAreSequential ==
    \A r \in Requests :
        LET q == req[r]
            w == q.writes
        IN /\ \A i \in DOMAIN w :
                /\ (i = 1) <=> (w[i].method = "POST" /\ w[i].status = "queued")
                /\ i > 1 => /\ w[i].method = "PATCH"
                            /\ w[1].ok /\ w[i - 1].ok
                            /\ w[i - 1].status # "completed"
                            /\ w[i].status \in {"in_progress", "completed"}
                /\ i = 2 => w[i].status = "in_progress"
                /\ i > 2 /\ w[i].status = "in_progress" => i = 3 /\ q.pushed # 0
           /\ Cardinality(WritesWith(q, "completed")) <= 1
           /\ q.pc \in {"create_check", "idle"} => w = <<>>
           /\ q.pull.sent /\ q.use_checks_api
                => Len(w) >= 3 /\ w[3].status = "in_progress" /\ w[3].ok

C2_Witness ==
    \E r \in Requests :
        Statuses(req[r]) = <<"queued", "in_progress", "in_progress", "completed">>

\* The creation of the check run was denied for the scope of the credential.
CreationDenied(q) == q.writes # <<>> /\ q.writes[1].resp = Forbidden

\* C3: when the creation of the check run is denied (403, 'Resource not
\* accessible by integration'), no update of a check run is ever sent for the
\* request, the denial raises nothing, and the run goes on through the
\* executor: it ends with the executor's result followed by the pull-request
\* request, with a classified failure, or with an error of the executor or of
\* the pull-request creation.
C3_DeniedCreationDisablesReporting ==
    \A r \in Requests :
        LET q == req[r]
        IN CreationDenied(q) =>
             /\ Len(q.writes) = 1
             /\ ~q.use_checks_api
             /\ q.raised_by \notin {"create_check", "patch"}
             /\ HasEnded(q) => ExecutorEnded(q)
             /\ q.pc = "done" =>
                  \/ q.pull.sent
                  \/ IsInstance(q.exc, "LookupError")
                  \/ IsInstance(q.exc, "PermissionError")

C3_Witness ==
    \E r \in Requests :
        /\ CreationDenied(req[r])
        /\ req[r].pc = "done"
        /\ req[r].pull.sent /\ req[r].pull.resp = ApiOk

\* C4: a write with conclusion 'success' is sent only in a run whose push and
\* whose pull-request creation have both succeeded before it.
C4_SuccessOnlyAfterPushAndPull ==
    \A r \in Requests :
        LET q == req[r]
        IN (\E i \in DOMAIN q.writes : q.writes[i].conclusion = "success")
             => /\ q.exc = "" /\ q.pushed # 0
                /\ q.pull.sent /\ q.pull.resp = ApiOk

C4_Witness ==
    \E r \in Requests :
        \E i \in DOMAIN req[r].writes :
            /\ req[r].writes[i].conclusion = "success"
            /\ req[r].writes[i].ok

\* The request has sent exactly one 'completed' write, with conclusion
\* neutral and the given title.
OneNeutralWrite(q, title) ==
    /\ Cardinality(WritesWith(q, "completed")) = 1
    /\ \A i \in WritesWith(q, "completed") :
          q.writes[i].conclusion = "neutral" /\ q.writes[i].title = title

\* The request ended as a classified failure does: it returned, or the one
\* terminal update it sent was answered by an error, which it raised.
EndsClassified(q, title) ==
    IF q.use_checks_api
    THEN /\ OneNeutralWrite(q, title)
         /\ q.pc = "raised" =>
              q.raised_by = "patch" /\ ~q.writes[Len(q.writes)].ok
    ELSE q.pc = "done" /\ WritesWith(q, "completed") = {}

TargetMissing(q) == q.pc # "idle" /\ q.target_branch \notin DOMAIN remote_refs

\* C5 as stated: every request whose target branch is not on the remote and
\* whose executor was run ends with a LookupError of the executor, without
\* raising, without a pull request, and with one completed(neutral) 'target
\* branch does not exist' write when a check run exists.
C5_AsStated ==
    \A r \in Requests :
        LET q == req[r]
        IN HasEnded(q) /\ ExecutorEnded(q) /\ TargetMissing(q) =>
             /\ IsInstance(q.exc, "LookupError")
             /\ q.pc = "done"
             /\ ~q.pull.sent
             /\ q.use_checks_api => OneNeutralWrite(q, TitleBranchMissing)

\* C5, amended: for a request whose target branch is not on the remote and
\* whose executor got past its temporary directory, clone and fetch, the
\* executor raises a LookupError, nothing is pushed and no pull request is
\* requested; without a check run the orchestrator returns; with one it sends
\* exactly one completed(neutral) 'target branch does not exist' update and
\* raises only if that update is answered by an error.
C5_TargetBranchMissing ==
    \A r \in Requests :
        LET q == req[r]
        IN /\ ExecutorEnded(q)
           /\ TargetMissing(q)
           /\ q.cause \notin {"tmpdir", "clone", "fetch"}
           => /\ IsInstance(q.exc, "LookupError")
              /\ q.pushed = 0 /\ ~q.pull.sent
              /\ HasEnded(q) => EndsClassified(q, TitleBranchMissing)

C5_Witness ==
    \E r \in Requests :
        /\ req[r].cause = "branch_missing"
        /\ req[r].pc = "done"
        /\ OneNeutralWrite(req[r], TitleBranchMissing)

\* C6 as stated: a push rejected with 403 makes the executor raise a
\* PermissionError, no pull request is requested, the orchestrator does not
\* raise, and an existing check run is completed as neutral 'could not push'.
C6_AsStated ==
    \A r \in Requests :
        LET q == req[r]
        IN q.cause = PushForbidden =>
             /\ q.exc = "PermissionError"
             /\ ~q.pull.sent
             /\ q.pc # "raised"
             /\ HasEnded(q) /\ q.use_checks_api =>
                  /\ OneNeutralWrite(q, TitleCouldNotPush)
                  /\ q.writes[Len(q.writes)].ok

\* C6, amended: a push rejected with 403 makes the executor raise a
\* PermissionError and no pull request is requested; without a check run the
\* orchestrator returns; with one it sends exactly one completed(neutral)
\* 'could not push' update and raises only if that update is answered by an
\* error.
C6_PushForbidden ==
    \A r \in Requests :
        LET q == req[r]
        IN q.cause = PushForbidden =>
             /\ q.exc = "PermissionError"
             /\ ~q.pull.sent
             /\ HasEnded(q) => EndsClassified(q, TitleCouldNotPush)

C6_Witness ==
    \E r \in Requests :
        /\ req[r].cause = PushForbidden
        /\ req[r].pc = "done"
        /\ OneNeutralWrite(req[r], TitleCouldNotPush)

\* The failures of the executor the code means to classify: the target
\* branch cannot be resolved, or the push is rejected with 403.
ClassifiedCause(q) ==
    \/ q.cause = "branch_missing"
    \/ q.cause = "clone" /\ q.exc = "LookupError"
    \/ q.cause = PushForbidden

\* C7: every other failure of the executor is raised out of the orchestrator
\* and is never reported as a completed(neutral) check run.
C7_UnclassifiedFailuresPropagate ==
    \A r \in Requests :
        LET q == req[r]
        IN q.exc # "" /\ ~ClassifiedCause(q) =>
             /\ WritesWith(q, "completed") = {}
             /\ HasEnded(q) => q.pc = "raised"

\* C8: when the handler of an event has ended, the request of each of its
\* target branches has been started, whatever happened to the others.
C8_EveryBranchIsProcessed ==
    \A e \in Events :
        ev[e].pc \in {"done", "raised"}
            => ev[e].idx = Len(ev[e].target_branches)

BackportRefs(refs) == DOMAIN refs \ {DefaultBranch, BranchV1, BranchV2}

\* C9: a backport branch that exists on the remote is never removed and
\* never moved to a commit that does not descend from the commit it pointed
\* at; the step in which a push is rejected for that reason leaves the refs
\* of the remote alone and fails the executor with a GitError, and the
\* orchestrator's next step for that request raises it.
C9_NoSilentDivergence ==
    [][/\ \A name \in BackportRefs(remote_refs) :
             /\ name \in DOMAIN remote_refs'
             /\ IsAncestor(commits', remote_refs[name], remote_refs'[name])
       /\ \A r \in Requests :
             /\ req[r].cause # PushRejected /\ req'[r].cause = PushRejected =>
                   /\ remote_refs' = remote_refs
                   /\ req'[r].exc = "GitError"
                   /\ req'[r].pc = "exec_result"
             /\ /\ req[r].cause = PushRejected
                /\ req[r].pc = "exec_result"
                /\ req'[r] # req[r]
                => req'[r].pc = "raised" /\ req'[r].cause = PushRejected]_vars

C9_Witness ==
    \E r \in Requests : req[r].cause = PushRejected /\ req[r].pc = "raised"

\* C10: the commit the cherry-pick creates has the tip of the target branch
\* as its only parent, the three-way merge of (first-parent tree of the
\* cherry, tree of the tip, tree of the cherry) as its tree, the cherry's
\* author and message and the bot as committer; and a successful push has
\* made the remote backport branch point at that commit.
C10_PushedCommitIsTheBackport ==
    \A r \in Requests :
        LET q == req[r]
        IN /\ q.pc = "push" =>
                LET new == q.clone.objects[q.created]
                    cherry == q.clone.objects[
                                  CHOOSE id \in revparse_single(
                                      q.clone.objects, payload.merge_commit_sha) : TRUE]
                    tip == q.clone.tracking[q.target_branch]
                IN /\ new.parents = <<tip>>
                   /\ new.tree = merge_trees(q.clone.objects[cherry.parents[1]].tree,
                                             q.clone.objects[tip].tree, cherry.tree)
                   /\ new.author = cherry.author
                   /\ new.message = cherry.message
                   /\ new.committer = Committer
           /\ q.pushed # 0 => q.pushed = q.created

\* The executor of a request is inside its `with TemporaryDirectory` block.
InsideWith(q) == q.pc \in {"clone", "fetch", "cherry_pick", "push"}

\* C11: the temporary directories that exist are exactly those of the
\* executors still inside their `with` block; once backport_pr_sync has
\* returned or raised, by whatever path, its directory is gone.
C11_TmpDirReleasedOnEveryExit ==
    /\ fs = {req[r].tmp_dir : r \in {x \in Requests : InsideWith(req[x])}}
    /\ \A r \in Requests :
          /\ InsideWith(req[r]) => req[r].tmp_dir # 0
          /\ ExecutorEnded(req[r]) =>
                req[r].tmp_dir = 0 /\ ~InsideWith(req[r])

\* An executor has left its block by an exception of the cherry-pick while
\* another one has returned, and no directory is left.
C11_Witness ==
    /\ fs = {}
    /\ \E r \in Requests : req[r].cause = "merge_conflict"
    /\ \E r \in Requests : req[r].pushed # 0

\* A label that is 'backport-' followed by a (possibly empty) branch name.
NamesBranch(label, branch) == label = BACKPORT_LABEL_PREFIX \o branch
HasBackportPrefix(label) ==
    \E n \in 0..Len(label) : NamesBranch(label, SubSeq(label, n + 1, Len(label)))

\* An event the gate is to drop, by the payload it still holds.
Inadmissible(e) ==
    \/ ~payload.merged
    \/ /\ e = "closed"
       /\ \A i \in DOMAIN inbox[e].labels : ~HasBackportPrefix(inbox[e].labels[i])
    \/ /\ e = "labeled"
       /\ ~HasBackportPrefix(inbox[e].label)

RequestsOf(e) == {r \in Requests : r[1] = e}

\* C12: the step that handles an event whose pull request is not merged, or
\* which has no label (closed) or added label (labeled) starting with
\* 'backport-', drops the event and changes nothing else; a dropped event
\* stays dropped and none of its requests is ever started, so it causes no
\* check-run call, token fetch, clone, push or pull-request creation.
C12_GateDropsWithoutSideEffects ==
    [][\A e \in Events :
         /\ ev[e].pc = "pending" =>
              /\ \A r \in RequestsOf(e) : req[r] = IdleRequest
              /\ ev'[e].pc # "pending" /\ Inadmissible(e) =>
                   /\ ev'[e].pc = "dropped"
                   /\ UNCHANGED <<commits, remote_refs, payload, req, fs>>
         /\ ev[e].pc = "dropped" =>
              /\ ev'[e] = ev[e]
              /\ \A r \in RequestsOf(e) : req'[r] = IdleRequest]_vars

\* Both events of a merged pull request were dropped for their labels, and
\* nothing was started.
C12_Witness ==
    /\ payload.merged
    /\ \A e \in Events : ev[e].pc = "dropped"
    /\ \A r \in Requests : req[r] = IdleRequest

\* The backport labels of a list, in its order.
BackportLabelsOf(labels) == SelectSeq(labels, HasBackportPrefix)

\* C13: the handler of a merge takes as its target branches the backport
\* labels of the pull request, in order, each without its 'backport-' prefix,
\* and nothing for the other labels; it starts the request of a target
\* branch at most once, with that branch; and when it returns, the request
\* of every target branch has been started and has returned.
C13_OneRequestPerBackportLabel ==
    [][LET e == "closed"
           tb == ev'[e].target_branches
       IN /\ ev[e].pc = "pending" /\ ev'[e].pc = "calling" =>
               [i \in DOMAIN tb |-> BACKPORT_LABEL_PREFIX \o tb[i]]
                   = BackportLabelsOf(inbox[e].labels)
          /\ ev[e].pc # "pending" => ev'[e].target_branches = ev[e].target_branches
          /\ \A r \in RequestsOf(e) :
               /\ req[r].pc # "idle" => req'[r].pc # "idle"
               /\ req[r].pc = "idle" /\ req'[r].pc # "idle" =>
                    /\ r[2] \in DOMAIN tb
                    /\ req'[r].target_branch = tb[r[2]]
                    /\ ev'[e].idx = r[2]
               /\ ev'[e].pc = "done" =>
                    req'[r].pc = IF r[2] \in DOMAIN tb THEN "returned" ELSE "idle"]_vars

\* A merge with two backport labels was handled to its end: two requests,
\* one per label.
C13_Witness ==
    /\ ev["closed"].pc = "done"
    /\ ev["closed"].target_branches = <<BranchV1, BranchV2>>
    /\ \A r \in RequestsOf("closed") : req[r].pc = "returned"

\* C14: the handler of a label added to a merged pull request takes exactly
\* one target branch, the added label without its prefix, whatever labels
\* the pull request carries; it makes one call, for that branch, and has
\* made exactly one when it returns.
C14_OneRequestForTheAddedLabel ==
    [][LET e == "labeled"
           tb == ev'[e].target_branches
       IN /\ ev[e].pc = "pending" /\ ev'[e].pc = "calling" =>
               /\ Len(tb) = 1
               /\ NamesBranch(inbox[e].label, tb[1])
          /\ ev[e].pc # "pending" => ev'[e].target_branches = ev[e].target_branches
          /\ ev'[e].idx <= 1
          /\ \A r \in RequestsOf(e) :
               /\ req[r].pc # "idle" => req'[r].pc # "idle"
               /\ req[r].pc = "idle" /\ req'[r].pc # "idle" =>
                    req'[r].target_branch = tb[1]
               /\ ev'[e].pc = "done" => ev'[e].idx = 1 /\ req'[r].pc = "returned"]_vars

\* The label was added to a pull request that carries another backport
\* label, and its one request has returned.
C14_Witness ==
    /\ ev["labeled"].pc = "done"
    /\ ev["labeled"].target_branches = <<BranchV1>>
    /\ ev["closed"].target_branches = <<BranchV2>>

\* The answer to the pull-request creation of a request has been handled.
PullAnswered(q) == q.pull.sent /\ q.pc # "pr_result"

\* The two failures of the pull-request creation the spec classifies.
PullFailedClassified(q) ==
    \/ q.pull.resp.cls = "ValidationError"
    \/ /\ q.pull.resp.cls = "BadRequest"
       /\ q.pull.resp.status_code = 403
       /\ q.pull.resp.msg = NotAccessible

\* C15 as stated: after a classified failure of the pull-request creation the
\* orchestrator does not raise and, with reporting enabled, has completed the
\* check run as neutral 'creation of the backport PR failed'; after any
\* other error of the creation it raises that error.
C15_AsStated ==
    \A r \in Requests :
        LET q == req[r]
        IN PullAnswered(q) /\ q.pull.resp.cls # "" =>
             IF PullFailedClassified(q)
             THEN /\ q.pc = "done"
                  /\ q.pushed # 0
                  /\ q.use_checks_api =>
                       /\ OneNeutralWrite(q, TitlePullFailed)
                       /\ q.writes[Len(q.writes)].ok
             ELSE q.pc = "raised" /\ q.raised_by = "create_pr"

\* C15, amended: after a classified failure of the pull-request creation,
\* which follows a successful push, the orchestrator returns when reporting
\* is disabled; when it is enabled it sends exactly one completed(neutral)
\* 'creation of the backport PR failed' update and raises only if that update
\* is answered by an error. After any other error of the creation it raises
\* that error and sends no completed update.
C15_PullCreationFailure ==
    \A r \in Requests :
        LET q == req[r]
        IN PullAnswered(q) /\ q.pull.resp.cls # "" =>
             IF PullFailedClassified(q)
             THEN /\ q.pushed # 0
                  /\ HasEnded(q)
                  /\ EndsClassified(q, TitlePullFailed)
             ELSE /\ q.pc = "raised" /\ q.raised_by = "create_pr"
                  /\ WritesWith(q, "completed") = {}

\* A request whose pull-request creation was denied with 403 has returned
\* after its neutral update.
C15_Witness ==
    \E r \in Requests :
        /\ PullAnswered(req[r]) /\ req[r].pull.resp = Forbidden
        /\ req[r].pushed # 0
        /\ req[r].pc = "done"
        /\ OneNeutralWrite(req[r], TitlePullFailed)

\* C16: the branch name is a function of (target_branch, merge_commit_sha,
\* pr_number) that gives equal names to equal triples and distinct names to
\* distinct triples.
C16_BranchNameInjective ==
    Len(naming.names) = 2 =>
        (naming.names[1] = naming.names[2]
            <=> naming.inputs[1] = naming.inputs[2])

\* Two names were computed for triples that differ in the target branch
\* only, one branch being a prefix of the other up to a '/'.
C16_Witness ==
    /\ Len(naming.names) = 2
    /\ naming.inputs[1].target_branch = <<"a">>
    /\ naming.inputs[2].target_branch = <<"a", "/", "p", "r", "4">>
    /\ naming.inputs[1].merge_commit_sha = naming.inputs[2].merge_commit_sha
    /\ naming.inputs[1].pr_number = naming.inputs[2].pr_number

\* The fields C17 names, for a request, written out from the payload.
PullFieldsBut(q, head) ==
    /\ q.pushed # 0
    /\ q.pull.base = q.target_branch
    /\ q.pull.head = head
    /\ q.pull.head \in DOMAIN remote_refs
    /\ q.pull.title =
           <<"[", "P", "R", " ", "#", "4", "2", "/">>
           \o SubSeq(payload.merge_commit_sha, 1, 8)
           \o <<" ", "b", "a", "c", "k", "p", "o", "r", "t", "]", "[">>
           \o q.target_branch \o <<"]", " ">> \o PrTitle
    /\ q.pull.maintainer_can_modify
    /\ ~q.pull.draft

BranchOf(q) ==
    <<"p", "a", "t", "c", "h", "b", "a", "c", "k", "/",
      "b", "a", "c", "k", "p", "o", "r", "t", "s", "/">>
    \o q.target_branch \o <<"/">> \o payload.merge_commit_sha
    \o <<"/", "p", "r">> \o Decimal(payload.number)

\* C18: two executors inside their `with` block at the same time, also for
\* the same target branch and pull request, have different directories; the
\* commit one of them created is in the other's clone only if it is on the
\* remote, and the backport branch of each clone points at its own commit.
C18_ConcurrentClonesAreDisjoint ==
    \A r1, r2 \in Requests :
        LET q1 == req[r1]
            q2 == req[r2]
        IN r1 # r2 /\ InsideWith(q1) /\ InsideWith(q2) =>
             /\ q1.tmp_dir # q2.tmp_dir
             /\ {q1.tmp_dir, q2.tmp_dir} \subseteq fs
             /\ q1.created # 0 =>
                  /\ q1.created \in DOMAIN q1.clone.objects
                  /\ q1.clone.local[BranchOf(q1)] = q1.created
                  /\ \/ q1.created \notin DOMAIN q2.clone.objects
                     \/ q1.created \in DOMAIN commits

\* Two executors for the same target branch have both made their commit and
\* not left their block yet.
C18_Witness ==
    \E r1, r2 \in Requests :
        /\ r1 # r2
        /\ req[r1].pc = "push" /\ req[r2].pc = "push"
        /\ req[r1].target_branch = req[r2].target_branch

\* C19: of the requests of the merge event, one is started only when every
\* one before it has returned, so at most one of them is in progress; once
\* one has raised, the handler has raised or is about to, and no later one
\* is ever started.
C19_FanOutIsSequential ==
    LET Closed(i) == req[<<"closed", i>>]
        InProgress(q) == q.pc \notin {"idle", "returned", "propagated"}
    IN /\ \A i, j \in 1..MaxLabels :
            i < j /\ Closed(j).pc # "idle" => Closed(i).pc = "returned"
       /\ Cardinality({i \in 1..MaxLabels : InProgress(Closed(i))}) <= 1
       /\ \A i \in 1..MaxLabels :
            InProgress(Closed(i)) => ev["closed"].idx = i
       /\ ev["closed"].pc = "raised" =>
            \A i \in 1..MaxLabels :
                Closed(i).pc = IF i < ev["closed"].idx THEN "returned"
                               ELSE IF i = ev["closed"].idx THEN "propagated"
                               ELSE "idle"

\* The first of two requests returned and the second is in progress.
C19_Witness ==
    /\ req[<<"closed", 1>>].pc = "returned"
    /\ req[<<"closed", 2>>].pc = "cherry_pick"

\* C20: a request whose check-run creation was answered by an error other
\* than 403 'Resource not accessible by integration' has raised that error
\* and done nothing else: one write, no token, no directory, no clone, no
\* commit, no push, no pull request.
C20_OtherCreationErrorsRaiseAtOnce ==
    \A r \in Requests :
        LET q == req[r]
        IN /\ q.writes # <<>>
           /\ q.writes[1].resp.cls # ""
           /\ ~(q.writes[1].resp.status_code = 403
                  /\ q.writes[1].resp.msg = NotAccessible)
           => /\ q.pc = "raised" /\ q.raised_by = "create_check"
              /\ Len(q.writes) = 1
              /\ q.token = "" /\ q.tmp_dir = 0 /\ q.clone = NoClone
              /\ q.exc = "" /\ q.created = 0 /\ q.pushed = 0
              /\ ~q.pull.sent
              /\ ~q.use_checks_api

\* A creation answered by 403 with another message was raised.
C20_Witness ==
    \E r \in Requests :
        /\ req[r].pc = "raised"
        /\ req[r].writes # <<>>
        /\ req[r].writes[1].resp.status_code = 403
        /\ req[r].writes[1].resp.msg # NotAccessible

====
